---- MODULE Spec2Model ----
(***************************************************************************)
(* Model of src/detect_people.py: the menu loop of main(), and             *)
(* DemoPersonCounter.connect_to_source / run_demo / detect_persons /       *)
(* add_info_overlay, as a state machine with one action per step of the    *)
(* code.  The capture, the detector, the display and the keyboard are the  *)
(* environment: their outcomes are chosen nondeterministically.            *)
(***************************************************************************)
EXTENDS Integers, Sequences, FiniteSets, TLC

(* ---- bounds of the model ---- *)
MaxFrames == 3      \* longest source, in frames
MaxRuns == 2        \* run_demo calls made by one main()
MaxDets == 2        \* most boxes the detector returns for one frame
MaxSkipN == 2       \* largest frame-skip count the sampling claim is read at

(* ---- program constants ---- *)
MAX_WIDTH == 1280   \* literal 1280 of run_demo's resize
PERSON == 0         \* COCO class 0 of detect_persons
NOT_PERSON == 1          \* any class that is not a person

Classes == {PERSON, NOT_PERSON}
NoFrame == [idx |-> 0, width |-> 0, height |-> 0]
NoBoxes == <<-1>>   \* result.boxes is None

\* Frame geometries the capture can deliver: (width, height).
FrameSizes == {<<640, 480>>, <<1920, 1080>>, <<1610, 161>>}

\* Geometries of FrameSizes for which the double product
\* height * (1280 / width) falls just below the exact integer quotient.
FloatShort == {<<1610, 161>>}

\* The sources main() can hand to run_demo: whether the text names a
\* YouTube page, how many frames the stream holds, and whether
\* CAP_PROP_POS_FRAMES can rewind it.
Sources == [yt : BOOLEAN, len : 0..MaxFrames, seekable : BOOLEAN]
NoSource == [yt |-> FALSE, len |-> 0, seekable |-> FALSE]

BoxSeqs == UNION {[1..n -> Classes] : n \in 0..MaxDets}

VARIABLES
    mpc,            \* position of main(): "menu", "run", "reset", "exited"
    pc,             \* position of run_demo / connect_to_source
    runs,           \* run_demo calls made so far
    source,         \* the source of the current run
    frame_count,    \* self.frame_count
    person_count,   \* self.person_count
    cap,            \* the cv2.VideoCapture of the current run: "none", "open", "released"
    pos,            \* frames of the stream already consumed by cap
    capRet,         \* value returned by connect_to_source: "unset", "cap", "None"
    frame,          \* local frame of the loop
    pcount,         \* local person_count of the loop
    annotated,      \* local annotated_frame: <<boxes drawn, overlay lines>>
    windows,        \* is the display window open
    display,        \* frames shown by cv2.imshow in this run
    detected,       \* frame numbers handed to detect_persons in this run
    log,            \* the persisted event log
    result,         \* value returned by the last run_demo: "none", "True", "False"
    ended,          \* what ended the loop of this run: "none", "readfail",
                    \* "quit", "interrupt", "fault"
    printed,        \* messages printed by this run
    releases,       \* cap.release() calls of the finally block in this run
    destroys,       \* cv2.destroyAllWindows() calls in this run
    reads,          \* successful reads of the loop in this run
    attempts,       \* reads attempted by the loop in this run
    opened,         \* what cv2.VideoCapture was called with in this run:
                    \* "none", "source", "stream_url"
    handles,        \* capture handles open in the process
    results,        \* boxes the model returned for the last detected frame
    raw,            \* the frame as the last read delivered it
    target          \* local source of connect_to_source: "source" as passed
                    \* in, or "stream_url" once line 57 has replaced it

vars == <<mpc, pc, runs, source, frame_count, person_count, cap, pos, capRet,
          frame, pcount, annotated, windows, display, detected, log, result,
          ended, printed, releases, destroys, reads, attempts, opened,
          handles, results, raw, target>>

self_vars == <<frame_count, person_count>>
locals == <<frame, pcount, annotated>>
outputs == <<windows, display, detected, log>>
history == <<ended, releases, destroys, reads, attempts>>
tracked == <<opened, handles, results, raw, target>>

NoAnnotated == [boxes |-> 0, number |-> 0, persons |-> 0]

(* ---- pure functions ---- *)

\* detect_persons, lines 88-98: count the boxes whose class is 0.
RECURSIVE CountPersons(_)
CountPersons(boxes) ==
    IF boxes = <<>> THEN 0
    ELSE (IF Head(boxes) = PERSON THEN 1 ELSE 0) + CountPersons(Tail(boxes))

\* detect_persons counting every box, whatever its class.
detect_persons_AnyClass(boxes) ==
    IF boxes = NoBoxes THEN 0 ELSE Len(boxes)

\* detect_persons, lines 92-112, for the one result the model returns.
detect_persons(boxes) ==
    IF boxes = NoBoxes THEN 0 ELSE CountPersons(boxes)

\* int(height * (1280 / width)), lines 159-161.
NewHeight(width, height) ==
    LET q == (height * MAX_WIDTH) \div width
    IN  IF <<width, height>> \in FloatShort THEN q - 1 ELSE q

\* run_demo lines 157-162.
Resize(f) ==
    IF f.width > MAX_WIDTH
    THEN [f EXCEPT !.width = MAX_WIDTH, !.height = NewHeight(f.width, f.height)]
    ELSE f

(* ---- state after DemoPersonCounter() and before the first menu ---- *)
Init ==
    /\ mpc = "menu"
    /\ pc = "idle"
    /\ runs = 0
    /\ source = NoSource
    /\ frame_count = 0
    /\ person_count = 0
    /\ cap = "none"
    /\ pos = 0
    /\ capRet = "unset"
    /\ frame = NoFrame
    /\ pcount = 0
    /\ annotated = NoAnnotated
    /\ windows = FALSE
    /\ display = <<>>
    /\ detected = <<>>
    /\ log = <<>>
    /\ result = "none"
    /\ ended = "none"
    /\ printed = {}
    /\ releases = 0
    /\ destroys = 0
    /\ reads = 0
    /\ attempts = 0
    /\ opened = "none"
    /\ handles = 0
    /\ results = <<>>
    /\ raw = NoFrame
    /\ target = "source"

(* ---- main() ---- *)

\* main lines 236-258: a choice that calls counter.run_demo(source, name).
MainRun ==
    /\ mpc = "menu"
    /\ runs < MaxRuns
    /\ \E s \in Sources :
        /\ source' = s
    /\ mpc' = "run"
    /\ pc' = "resolve"
    /\ runs' = runs + 1
    /\ cap' = "none"
    /\ pos' = 0
    /\ capRet' = "unset"
    /\ frame' = NoFrame
    /\ pcount' = 0
    /\ annotated' = NoAnnotated
    /\ display' = <<>>
    /\ detected' = <<>>
    /\ result' = "none"
    /\ ended' = "none"
    /\ printed' = {}
    /\ releases' = 0
    /\ destroys' = 0
    /\ reads' = 0
    /\ attempts' = 0
    /\ opened' = "none"
    /\ results' = <<>>
    /\ raw' = NoFrame
    /\ target' = "source"
    /\ UNCHANGED <<self_vars, windows, log, handles>>

\* main lines 244-245 and 260-261: missing file or invalid choice, no run.
MainNoRun ==
    /\ mpc = "menu"
    /\ mpc' = "reset"
    /\ UNCHANGED <<pc, runs, source, tracked, self_vars, cap, pos, capRet, locals,
                   outputs, result, history, printed>>

\* MainReset without the assignment of line 263.
MainReset_NoReset ==
    /\ mpc = "reset"
    /\ mpc' = "menu"
    /\ pc' = "idle"
    /\ UNCHANGED <<self_vars, runs, source, tracked, cap, pos, capRet, locals, outputs,
                   result, history, printed>>

\* main line 263, reached after every branch but choice "0".
MainReset ==
    /\ mpc = "reset"
    /\ mpc' = "menu"
    /\ pc' = "idle"
    /\ frame_count' = 0
    /\ UNCHANGED person_count
    /\ UNCHANGED <<runs, source, tracked, cap, pos, capRet, locals, outputs, result,
                   history, printed>>

\* main lines 232-234: choice "0".
MainQuit ==
    /\ mpc = "menu"
    /\ mpc' = "exited"
    /\ UNCHANGED <<pc, runs, source, tracked, self_vars, cap, pos, capRet, locals,
                   outputs, result, history, printed>>

(* ---- DemoPersonCounter.connect_to_source ---- *)

\* ConnectResolve falling back to the page URL when yt_dlp fails.
ConnectResolve_Fallback ==
    /\ mpc = "run" /\ pc = "resolve"
    /\ \/ /\ ~source.yt
          /\ UNCHANGED printed
       \/ /\ source.yt
          /\ printed' = printed \cup {"extraction"}
    /\ pc' = "open"
    /\ UNCHANGED <<mpc, runs, source, tracked, self_vars, cap, pos, capRet,
                   locals, outputs, result, history>>

\* lines 54-59: a YouTube page is resolved by get_youtube_stream_url, which
\* returns None when yt_dlp fails; any other source goes on unchanged.
ConnectResolve ==
    /\ mpc = "run" /\ pc = "resolve"
    /\ \/ /\ ~source.yt
          /\ pc' = "open"
          /\ UNCHANGED <<capRet, printed, target>>
       \/ /\ source.yt
          /\ target' = "stream_url"
          /\ pc' = "open"
          /\ printed' = printed \cup {"extraite"}
          /\ UNCHANGED capRet
       \/ /\ source.yt
          /\ capRet' = "None"
          /\ pc' = "connected"
          /\ printed' = printed \cup {"extraction"}
          /\ UNCHANGED target
    /\ UNCHANGED <<mpc, runs, source, opened, handles, results, raw,
                   self_vars, cap, pos, locals, outputs, result, history>>

\* lines 61-63: cv2.VideoCapture(source), buffer size 1.
ConnectOpen ==
    /\ mpc = "run" /\ pc = "open"
    /\ cap' = "open"
    /\ opened' = target
    /\ handles' = handles + 1
    /\ pc' = "probe"
    /\ UNCHANGED <<mpc, runs, source, target, results, raw, self_vars, pos, capRet, locals, outputs,
                   result, history, printed>>

\* ConnectProbe with the failed capture left open.
ConnectProbe_Leak ==
    /\ mpc = "run" /\ pc = "probe"
    /\ \/ /\ source.len > 0
          /\ pos' = IF source.seekable THEN 0 ELSE 1
          /\ capRet' = "cap"
          /\ printed' = printed \cup {"etablie"}
       \/ /\ capRet' = "None"
          /\ printed' = printed \cup {"impossible"}
          /\ UNCHANGED pos
    /\ pc' = "connected"
    /\ UNCHANGED <<mpc, runs, source, tracked, self_vars, cap, locals, outputs, result,
                   history>>

\* lines 65-73: the probe read; on success the position is set back to 0
\* (which only a seekable stream obeys), on failure the capture is released.
ConnectProbe ==
    /\ mpc = "run" /\ pc = "probe"
    /\ \/ /\ source.len > 0
          /\ pos' = IF source.seekable THEN 0 ELSE 1
          /\ capRet' = "cap"
          /\ printed' = printed \cup {"etablie"}
          /\ UNCHANGED <<cap, handles>>
       \/ /\ cap' = "released"
          /\ handles' = handles - 1
          /\ capRet' = "None"
          /\ printed' = printed \cup {"impossible"}
          /\ UNCHANGED pos
    /\ pc' = "connected"
    /\ UNCHANGED <<mpc, runs, source, target, opened, results, raw, self_vars, locals, outputs, result,
                   history>>

(* ---- DemoPersonCounter.run_demo ---- *)

\* RunDemoCheck without the test of the connection.
RunDemoCheck_NoGuard ==
    /\ mpc = "run" /\ pc = "connected"
    /\ pc' = "read"
    /\ printed' = printed \cup {"demarrage"}
    /\ UNCHANGED <<mpc, result, runs, source, tracked, self_vars, cap, pos, capRet,
                   locals, outputs, history>>

\* lines 140-145: return False when connect_to_source gave None.
RunDemoCheck ==
    /\ mpc = "run" /\ pc = "connected"
    /\ \/ /\ capRet = "None"
          /\ result' = "False"
          /\ pc' = "returned"
          /\ mpc' = "reset"
          /\ UNCHANGED printed
       \/ /\ capRet = "cap"
          /\ pc' = "read"
          /\ printed' = printed \cup {"demarrage"}
          /\ UNCHANGED <<mpc, result>>
    /\ UNCHANGED <<runs, source, tracked, self_vars, cap, pos, capRet, locals, outputs,
                   history>>

\* ReadFrame counting the frame before it tests ret.
ReadFrame_CountsFailed ==
    /\ mpc = "run" /\ pc = "read"
    /\ attempts' = attempts + 1
    /\ frame_count' = frame_count + 1
    /\ \/ /\ pos < source.len
          /\ \E sz \in FrameSizes :
                /\ frame' = [idx |-> pos + 1, width |-> sz[1],
                             height |-> sz[2]]
                /\ raw' = frame'
          /\ pos' = pos + 1
          /\ reads' = reads + 1
          /\ pc' = "resize"
          /\ UNCHANGED <<ended, printed>>
       \/ /\ ended' = "readfail"
          /\ printed' = printed \cup {"fin"}
          /\ pc' = "finally"
          /\ UNCHANGED <<frame, raw, pos, reads>>
    /\ UNCHANGED <<mpc, runs, source, target, opened, handles, results, person_count, cap, capRet, pcount,
                   annotated, outputs, result, releases, destroys>>

\* ReadFrame with a message of its own for a read error before the end.
ReadFrame_Distinguishes ==
    /\ mpc = "run" /\ pc = "read"
    /\ attempts' = attempts + 1
    /\ \/ /\ pos < source.len
          /\ \E sz \in FrameSizes :
                /\ frame' = [idx |-> pos + 1, width |-> sz[1],
                             height |-> sz[2]]
                /\ raw' = frame'
          /\ pos' = pos + 1
          /\ reads' = reads + 1
          /\ frame_count' = frame_count + 1
          /\ pc' = "resize"
          /\ UNCHANGED <<ended, printed>>
       \/ /\ ended' = "readfail"
          /\ printed' = printed \cup
                (IF pos < source.len THEN {"erreur_lecture"} ELSE {"fin"})
          /\ pc' = "finally"
          /\ UNCHANGED <<frame, raw, pos, reads, frame_count>>
    /\ UNCHANGED <<mpc, runs, source, target, opened, handles, results,
                   person_count, cap, capRet, pcount, annotated, outputs,
                   result, releases, destroys>>

\* lines 149-154: read a frame; leave the loop when ret is false, else count
\* the frame.
ReadFrame ==
    /\ mpc = "run" /\ pc = "read"
    /\ attempts' = attempts + 1
    /\ \/ /\ pos < source.len
          /\ \E sz \in FrameSizes :
                /\ frame' = [idx |-> pos + 1, width |-> sz[1],
                             height |-> sz[2]]
                /\ raw' = frame'
          /\ pos' = pos + 1
          /\ reads' = reads + 1
          /\ frame_count' = frame_count + 1
          /\ pc' = "resize"
          /\ UNCHANGED <<ended, printed>>
       \/ /\ ended' = "readfail"
          /\ printed' = printed \cup {"fin"}
          /\ pc' = "finally"
          /\ UNCHANGED <<frame, raw, pos, reads, frame_count>>
    /\ UNCHANGED <<mpc, runs, source, target, opened, handles, results, person_count, cap, capRet, pcount,
                   annotated, outputs, result, releases, destroys>>

\* ResizeFrame followed by a sampling gate that passes every second frame.
ResizeFrame_Skip ==
    /\ mpc = "run" /\ pc = "resize"
    /\ frame' = Resize(frame)
    /\ pc' = IF frame_count % 2 = 0 THEN "detect" ELSE "waitkey"
    /\ UNCHANGED <<mpc, runs, source, tracked, self_vars, cap, pos, capRet, pcount,
                   annotated, outputs, result, history, printed>>

\* lines 157-162: shrink a frame wider than 1280; frame.shape or cv2.resize
\* may raise.
ResizeFrame ==
    /\ mpc = "run" /\ pc = "resize"
    /\ \/ /\ frame' = Resize(frame)
          /\ pc' = "detect"
          /\ UNCHANGED ended
       \/ /\ pc' = "except_exc"
          /\ ended' = "fault"
          /\ UNCHANGED frame
    /\ UNCHANGED <<mpc, runs, source, tracked, self_vars, cap, pos, capRet, pcount,
                   annotated, outputs, result, releases, destroys, reads,
                   attempts, printed>>

\* DetectPersons handing its frame to the display without the overlay.
DetectPersons_SkipsOverlay ==
    /\ mpc = "run" /\ pc = "detect"
    /\ detected' = Append(detected, frame_count)
    /\ \E boxes \in BoxSeqs \cup {NoBoxes} :
            /\ results' = boxes
            /\ pcount' = detect_persons(boxes)
            /\ person_count' = detect_persons(boxes)
            /\ annotated' = [boxes |-> detect_persons(boxes),
                             number |-> frame_count,
                             persons |-> detect_persons(boxes)]
    /\ pc' = "show"
    /\ UNCHANGED <<mpc, runs, source, target, opened, handles, raw,
                   frame_count, cap, pos, capRet, frame, windows, display,
                   log, result, history, printed>>

\* lines 165-166 with detect_persons lines 86-112: run the model on the
\* frame, count and box the persons; the model may raise.
DetectPersons ==
    /\ mpc = "run" /\ pc = "detect"
    /\ detected' = Append(detected, frame_count)
    /\ \/ \E boxes \in BoxSeqs \cup {NoBoxes} :
            /\ results' = boxes
            /\ pcount' = detect_persons(boxes)
            /\ person_count' = detect_persons(boxes)
            /\ annotated' = [boxes |-> detect_persons(boxes), number |-> 0,
                             persons |-> 0]
            /\ pc' = "overlay"
            /\ UNCHANGED ended
       \/ /\ pc' = "except_exc"
          /\ ended' = "fault"
          /\ UNCHANGED <<results, pcount, person_count, annotated>>
    /\ UNCHANGED <<mpc, runs, source, target, opened, handles, raw, frame_count, cap, pos, capRet, frame,
                   windows, display, log, result, releases, destroys, reads,
                   attempts, printed>>

\* AddInfoOverlay writing a zero-based frame number.
AddInfoOverlay_OffByOne ==
    /\ mpc = "run" /\ pc = "overlay"
    /\ annotated' = [annotated EXCEPT !.number = frame_count - 1,
                                      !.persons = pcount]
    /\ pc' = "show"
    /\ UNCHANGED <<mpc, runs, source, tracked, self_vars, cap, pos, capRet, frame,
                   pcount, outputs, result, history, printed>>

\* line 169 with add_info_overlay lines 116-136: write the person count and
\* self.frame_count on the annotated frame.
AddInfoOverlay ==
    /\ mpc = "run" /\ pc = "overlay"
    /\ \/ /\ annotated' = [annotated EXCEPT !.number = frame_count,
                                            !.persons = pcount]
          /\ pc' = "show"
          /\ UNCHANGED ended
       \/ /\ pc' = "except_exc"
          /\ ended' = "fault"
          /\ UNCHANGED annotated
    /\ UNCHANGED <<mpc, runs, source, tracked, self_vars, cap, pos, capRet, frame,
                   pcount, outputs, result, releases, destroys, reads,
                   attempts, printed>>

\* line 172: cv2.imshow of the annotated frame.
ShowFrame ==
    /\ mpc = "run" /\ pc = "show"
    /\ \/ /\ display' = Append(display, annotated)
          /\ windows' = TRUE
          /\ pc' = "waitkey"
          /\ UNCHANGED ended
       \/ /\ pc' = "except_exc"
          /\ ended' = "fault"
          /\ UNCHANGED <<display, windows>>
    /\ UNCHANGED <<mpc, runs, source, tracked, self_vars, cap, pos, capRet, locals,
                   detected, log, result, releases, destroys, reads,
                   attempts, printed>>

\* WaitKey seeing 'q' but going on with the loop.
WaitKey_NoBreak ==
    /\ mpc = "run" /\ pc = "waitkey"
    /\ \E key \in {"q", " ", "none"} :
        ended' = IF key = "q" THEN "quit" ELSE ended
    /\ pc' = "read"
    /\ UNCHANGED <<mpc, runs, source, tracked, self_vars, cap, pos, capRet,
                   locals, outputs, result, printed, releases, destroys,
                   reads, attempts>>

\* lines 175-178: 'q' leaves the loop, any other key or none goes on.
WaitKey ==
    /\ mpc = "run" /\ pc = "waitkey"
    /\ \E key \in {"q", " ", "none"} :
        IF key = "q"
        THEN /\ ended' = "quit"
             /\ pc' = "finally"
        ELSE /\ pc' = "read"
             /\ UNCHANGED ended
    /\ UNCHANGED <<mpc, runs, source, tracked, self_vars, cap, pos, capRet, locals,
                   outputs, result, printed, releases, destroys, reads,
                   attempts>>

\* Ctrl-C while the try block of lines 147-178 executes.
LoopPcs == {"read", "resize", "detect", "overlay", "show", "waitkey"}

\* KeyboardInterrupt caught by the handler of Exception.
KeyboardInterrupt_AsError ==
    /\ mpc = "run" /\ pc \in LoopPcs
    /\ pc' = "except_exc"
    /\ ended' = "interrupt"
    /\ UNCHANGED <<mpc, runs, source, tracked, self_vars, cap, pos, capRet, locals,
                   outputs, result, releases, destroys, reads, attempts,
                   printed>>

KeyboardInterrupt ==
    /\ mpc = "run" /\ pc \in LoopPcs
    /\ pc' = "except_ki"
    /\ ended' = "interrupt"
    /\ UNCHANGED <<mpc, runs, source, tracked, self_vars, cap, pos, capRet, locals,
                   outputs, result, releases, destroys, reads, attempts,
                   printed>>

\* lines 180-181.
ExceptKeyboardInterrupt ==
    /\ mpc = "run" /\ pc = "except_ki"
    /\ printed' = printed \cup {"arret"}
    /\ pc' = "finally"
    /\ UNCHANGED <<mpc, runs, source, tracked, self_vars, cap, pos, capRet, locals,
                   outputs, result, history>>

\* ExceptException with the exception leaving run_demo past the release.
ExceptException_Propagates ==
    /\ mpc = "run" /\ pc = "except_exc"
    /\ printed' = printed \cup {"erreur"}
    /\ result' = "True"
    /\ pc' = "returned"
    /\ mpc' = "reset"
    /\ UNCHANGED <<runs, source, tracked, self_vars, cap, pos, capRet, locals,
                   outputs, history>>

\* lines 182-183.
ExceptException ==
    /\ mpc = "run" /\ pc = "except_exc"
    /\ printed' = printed \cup {"erreur"}
    /\ pc' = "finally"
    /\ UNCHANGED <<mpc, runs, source, tracked, self_vars, cap, pos, capRet, locals,
                   outputs, result, history>>

\* Finally returning False after a reported error.
Finally_FalseOnError ==
    /\ mpc = "run" /\ pc = "finally"
    /\ cap' = "released"
    /\ handles' = IF cap = "open" THEN handles - 1 ELSE handles
    /\ releases' = releases + 1
    /\ windows' = FALSE
    /\ destroys' = destroys + 1
    /\ printed' = printed \cup {"liberees"}
    /\ result' = IF "erreur" \in printed THEN "False" ELSE "True"
    /\ pc' = "returned"
    /\ mpc' = "reset"
    /\ UNCHANGED <<runs, source, target, opened, results, raw, self_vars,
                   pos, capRet, locals, display, detected, log, ended, reads,
                   attempts>>

\* Finally without cap.release().
Finally_NoRelease ==
    /\ mpc = "run" /\ pc = "finally"
    /\ releases' = releases + 1
    /\ windows' = FALSE
    /\ destroys' = destroys + 1
    /\ printed' = printed \cup {"liberees"}
    /\ result' = "True"
    /\ pc' = "returned"
    /\ mpc' = "reset"
    /\ UNCHANGED <<runs, source, tracked, cap, self_vars, pos, capRet,
                   locals, display, detected, log, ended, reads, attempts>>

\* lines 184-188: release the capture, destroy the windows, return True.
Finally ==
    /\ mpc = "run" /\ pc = "finally"
    /\ cap' = "released"
    /\ handles' = IF cap = "open" THEN handles - 1 ELSE handles
    /\ releases' = releases + 1
    /\ windows' = FALSE
    /\ destroys' = destroys + 1
    /\ printed' = printed \cup {"liberees"}
    /\ result' = "True"
    /\ pc' = "returned"
    /\ mpc' = "reset"
    /\ UNCHANGED <<runs, source, target, opened, results, raw, self_vars, pos, capRet, locals, display,
                   detected, log, ended, reads, attempts>>

Next ==
    \/ MainRun
    \/ MainNoRun
    \/ MainReset
    \/ MainQuit
    \/ ConnectResolve
    \/ ConnectOpen
    \/ ConnectProbe
    \/ RunDemoCheck
    \/ ReadFrame
    \/ ResizeFrame
    \/ DetectPersons
    \/ AddInfoOverlay
    \/ ShowFrame
    \/ WaitKey
    \/ KeyboardInterrupt
    \/ ExceptKeyboardInterrupt
    \/ ExceptException
    \/ Finally

Spec == Init /\ [][Next]_vars

(* ---- properties ---- *)

InTry == pc \in LoopPcs \cup {"except_ki", "except_exc", "finally"}

\* C1: a run that connected releases the capture and destroys the windows
\* exactly once before run_demo returns, whatever ended its loop, and not
\* before the loop has ended.
C1_ReleaseExactlyOnce ==
    /\ (capRet = "cap" /\ pc = "returned") =>
          /\ releases = 1 /\ destroys = 1
          /\ cap = "released" /\ ~windows
          /\ ended \in {"readfail", "quit", "interrupt", "fault"}
    /\ (capRet = "cap" /\ mpc = "run" /\ InTry) =>
          /\ releases = 0 /\ destroys = 0
          /\ cap = "open"

C1_Witness ==
    /\ pc = "returned" /\ capRet = "cap"
    /\ ended = "fault" /\ releases = 1 /\ Len(display) = 1

\* C2: connect_to_source returns the capture exactly when the probe read
\* gave a frame, the capture is then open, and a connect that returns None
\* leaves no capture open.
C2_HandleIffProbe ==
    pc = "connected" =>
        /\ (capRet = "cap") <=> ("etablie" \in printed)
        /\ capRet \in {"cap", "None"}
        /\ (capRet = "cap") => cap = "open"
        /\ (capRet = "None") => cap \in {"none", "released"}
        /\ ("impossible" \in printed) => cap = "released"

C2_Witness ==
    /\ pc = "connected" /\ capRet = "None"
    /\ "impossible" \in printed /\ cap = "released"

\* C3: when connecting fails run_demo returns False and the run has read,
\* counted, detected, shown and logged nothing.
C3_FailedConnectDoesNothing ==
    (capRet = "None" /\ pc \in {"connected", "returned"}) =>
        /\ (pc = "returned") => result = "False"
        /\ attempts = 0 /\ reads = 0 /\ frame_count = 0
        /\ detected = <<>> /\ display = <<>>
        /\ ~windows /\ destroys = 0
        /\ log = <<>>

C3_Witness ==
    /\ pc = "returned" /\ capRet = "None" /\ result = "False"
    /\ runs = 2

\* C4: a run ended by a detector or render fault returns to its caller a
\* value that differs from the one a normally ended run returns.
C4_FaultSurfaced ==
    (pc = "returned" /\ ended = "fault") => result # "True"

\* C5: within a run the frame number equals the number of frames read so
\* far in that run, so it grows by one per frame read and the first is 1.
C5_FrameNumberCountsReads ==
    (mpc = "run" \/ pc = "returned") =>
        /\ frame_count = reads
        /\ (pc = "resize") => frame_count >= 1
        /\ (reads = 0) => frame_count = 0

C5_Witness ==
    /\ runs = 2 /\ mpc = "run" /\ pc = "resize"
    /\ reads = 2 /\ frame_count = 2

\* C6: whenever the controller is back at the menu, between runs, both
\* frame_count and person_count hold their initial value 0.
C6_RunStateReset ==
    (mpc = "menu") => (frame_count = 0 /\ person_count = 0)

\* The events a log would hold for the frames shown.
Events(shown) ==
    [i \in 1..Len(shown) |->
        [frame_number |-> shown[i].number, person_count |-> shown[i].persons]]

Outcome == <<result, releases, destroys, cap, windows, "erreur" \in printed>>

\* C9: a run ended by the quit key or by Ctrl-C leaves the loop at once and
\* finishes exactly as a run ended by a failed read: released once, windows
\* destroyed, no error reported, True returned.
C9_InterruptIsNormalEnd ==
    /\ (mpc = "run" /\ ended \in {"quit", "interrupt"}) =>
          pc \in {"except_ki", "finally"}
    /\ (pc = "returned" /\ ended \in {"quit", "interrupt", "readfail"}) =>
          Outcome = <<"True", 1, 1, "released", FALSE, FALSE>>

C9_Witness ==
    /\ pc = "returned" /\ ended = "interrupt"
    /\ "arret" \in printed /\ frame_count = 2 /\ Len(display) = 1

C11_ResolveOrFail ==
    /\ ("extraction" \in printed) =>
          /\ source.yt
          /\ opened = "none" /\ cap = "none"
          /\ pc \in {"connected", "returned", "idle"}
          /\ capRet = "None"
          /\ (pc # "connected") => result = "False"
    /\ (source.yt /\ opened # "none") =>
          (opened = "stream_url" /\ "extraite" \in printed)
    /\ (~source.yt) =>
          /\ opened \in {"none", "source"}
          /\ printed \cap {"extraite", "extraction"} = {}

C11_Witness ==
    /\ pc = "returned" /\ source.yt /\ "extraction" \in printed
    /\ result = "False" /\ opened = "none"

\* A failed read at the end of the stream, and one before it.
EndOfStream == ended = "readfail" /\ pos = source.len
ReadError == ended = "readfail" /\ pos < source.len

\* What a finished run has reported: the messages of the loop and of its
\* exits, and the value returned.
ConnectMsgs == {"extraite", "etablie", "demarrage"}
LoopReport == <<printed \ ConnectMsgs, result>>

PersonBoxes(boxes) ==
    IF boxes = NoBoxes THEN {}
    ELSE {i \in DOMAIN boxes : boxes[i] = PERSON}

\* C13: the person count of a frame is the number of class-0 boxes the
\* model returned for it, whatever the other classes; it is 0 for no boxes
\* and never negative; exactly the person boxes are drawn.
C13_CountsPersonClass ==
    (mpc = "run" \/ pc = "returned") =>
        /\ pcount = Cardinality(PersonBoxes(results))
        /\ pcount >= 0
        /\ (results \in {<<>>, NoBoxes}) => pcount = 0
        /\ annotated.boxes = pcount
        /\ (pc = "overlay") => person_count = pcount

C13_Witness ==
    /\ mpc = "run" /\ pc = "overlay"
    /\ results = <<NOT_PERSON, PERSON>> /\ pcount = 1

\* C14: at detection a frame read wider than 1280 has width 1280 and height
\* floor(height * 1280 / width); any other frame is as it was read.
C14_ResizedGeometry ==
    (mpc = "run" /\ pc = "detect") =>
        IF raw.width > MAX_WIDTH
        THEN /\ frame.width = MAX_WIDTH
             /\ frame.height = (raw.height * MAX_WIDTH) \div raw.width
        ELSE frame = raw

StepOrder ==
    { <<"read", "resize">>, <<"resize", "detect">>, <<"detect", "overlay">>,
      <<"overlay", "show">>, <<"show", "waitkey">>, <<"waitkey", "read">> }

\* What each step of the current iteration has done when the next is due.
StepsDone ==
    mpc = "run" =>
        /\ (pc = "read") =>
              (attempts = frame_count /\ Len(display) = frame_count)
        /\ (pc = "resize") =>
              (frame = raw /\ Len(detected) = frame_count - 1)
        /\ (pc = "detect") =>
              (frame.width <= MAX_WIDTH /\ Len(detected) = frame_count - 1)
        /\ (pc = "overlay") =>
              (Len(detected) = frame_count /\ annotated.number = 0)
        /\ (pc = "show") =>
              (annotated.number = frame_count
                 /\ Len(display) = frame_count - 1)
        /\ (pc = "waitkey") => Len(display) = frame_count

C16_NothingAfterStop ==
    /\ [] ((mpc = "run" /\ ended \in {"quit", "readfail"}) => pc = "finally")
    /\ [][ (ended \in {"quit", "readfail"} /\ runs' = runs) =>
              /\ attempts' = attempts
              /\ reads' = reads
              /\ detected' = detected
              /\ display' = display
              /\ log' = log
              /\ frame_count' \in {frame_count, 0} ]_vars

C16_Witness ==
    /\ pc = "returned" /\ ended = "quit"
    /\ attempts = 1 /\ pos < source.len

\* C17: run_demo returns False exactly when connect_to_source gave None
\* and True after every connected run, whatever ended it; it returns
\* nothing else.
C17_ReturnValue ==
    (pc = "returned") =>
        /\ result \in {"True", "False"}
        /\ (result = "False") <=> (capRet = "None")
        /\ (result = "True") <=> (capRet = "cap")
        /\ (capRet = "cap") =>
              ended \in {"readfail", "quit", "interrupt", "fault"}

C17_Witness ==
    /\ pc = "returned" /\ ended = "fault" /\ "erreur" \in printed
    /\ result = "True" /\ reads = 2

\* C18: at most one capture handle is open at any time, it is the capture
\* of the current run, and none is open between runs.
C18_OneHandle ==
    /\ handles \in {0, 1}
    /\ (handles = 1) <=> (cap = "open")
    /\ (mpc \in {"menu", "reset", "exited"}) => handles = 0

C18_Witness ==
    /\ runs = 2 /\ mpc = "run" /\ pc = "read"
    /\ handles = 1 /\ attempts = 1

\* C19: the loop starts at the first frame of the source, the k-th frame
\* read is the k-th frame of the source, and a run that reads to the end
\* of the stream has counted every frame of the source.
C19_ProbeFrameKept ==
    /\ (mpc = "run" /\ pc = "read" /\ attempts = 0) => pos = 0
    /\ (mpc = "run" /\ reads >= 1) => raw.idx = reads
    /\ (pc = "returned" /\ EndOfStream) => frame_count = source.len

====
